---- MODULE Spec2Model ----
(***************************************************************************)
(* A model of Lucid 0.3.0 (src/publish/lucid-0.3.0.js): the skeleton       *)
(* builder, the text-variable interpolation, the mount and update walks,   *)
(* and the registry of component instances with its lifecycle hooks.       *)
(*                                                                         *)
(* JavaScript strings are sequences of one-character strings, so that      *)
(* indexOf, substring, split and replace are computed as the code computes *)
(* them.  JavaScript values are tagged records.  The host platform's node  *)
(* tree is a heap: a sequence of node records, a node's identity being its *)
(* index.                                                                  *)
(***************************************************************************)
EXTENDS Integers, Sequences, FiniteSets, TLC

(***************************************************************************)
(* Bounds of the model.                                                    *)
(***************************************************************************)
\* top-level calls (render, run, setState, disconnect, host mutation) per run
MaxCalls == 3
\* length of the enumerated interpolation inputs
MaxLen == 4

(***************************************************************************)
(* Strings.                                                                *)
(***************************************************************************)
LB == <<"{", "{">>
RB == <<"}", "}">>
DOT == <<".">>

sState == <<"s", "t", "a", "t", "e">>
sDom == <<"d", "o", "m">>
sCount == <<"c", "o", "u", "n", "t">>
sCls == <<"c", "l", "s">>
sA == <<"a">>
sB == <<"b">>
sUndefined == <<"u", "n", "d", "e", "f", "i", "n", "e", "d">>
sNull == <<"n", "u", "l", "l">>
sObject == <<"[", "o", "b", "j", "e", "c", "t", " ", "O", "b", "j", "e", "c", "t", "]">>
sElement == <<"[", "o", "b", "j", "e", "c", "t", " ", "H", "T", "M", "L", "E", "l", "e", "m", "e", "n", "t", "]">>
sFunction == <<"f", "u", "n", "c", "t", "i", "o", "n">>
sChildElementCount == <<"c", "h", "i", "l", "d", "E", "l", "e", "m", "e", "n", "t", "C", "o", "u", "n", "t">>
sTagName == <<"t", "a", "g", "N", "a", "m", "e">>
sLength == <<"l", "e", "n", "g", "t", "h">>
sMethods == <<"m", "e", "t", "h", "o", "d", "s">>
sIncrement == <<"i", "n", "c", "r", "e", "m", "e", "n", "t">>
sName == <<"n", "a", "m", "e">>
sOnclick == <<"o", "n", "c", "l", "i", "c", "k">>
sClass == <<"c", "l", "a", "s", "s">>
sLucidComponent == <<"l", "u", "c", "i", "d", "-", "c", "o", "m", "p", "o", "n", "e", "n", "t">>
sLucidKey == <<"l", "u", "c", "i", "d", "-", "k", "e", "y">>
Digits == <<"0", "1", "2", "3", "4", "5", "6", "7", "8", "9">>
Whitespace == {" ", "\n", "\t"}

Min(a, b) == IF a < b THEN a ELSE b
Max(a, b) == IF a < b THEN b ELSE a

\* String.prototype.indexOf(pat, from): 0-based, -1 when absent
IndexOf(text, pat, from) ==
  LET f == Max(from, 0)
      hits == {i \in f..(Len(text) - Len(pat)) : SubSeq(text, i + 1, i + Len(pat)) = pat}
  IN  IF hits = {} THEN -1 ELSE CHOOSE i \in hits : \A j \in hits : i <= j

\* String.prototype.substring(a, b): both ends clamped to 0..length, swapped when a > b
Substring(text, a, b) ==
  LET x == Min(Max(a, 0), Len(text))
      y == Min(Max(b, 0), Len(text))
  IN  SubSeq(text, Min(x, y) + 1, Max(x, y))

\* String.prototype.split("."): the segments between the dots, at least one
RECURSIVE Split(_)
Split(s) ==
  LET i == IndexOf(s, DOT, 0)
  IN  IF i = -1 THEN <<s>>
      ELSE <<SubSeq(s, 1, i)>> \o Split(SubSeq(s, i + 2, Len(s)))

\* String.prototype.replace(pat, repl) with a string pattern: the first occurrence only
\* (the replacement strings of the model hold no "$", so no replacement pattern applies)
Replace(text, pat, repl) ==
  LET i == IndexOf(text, pat, 0)
  IN  IF i = -1 THEN text
      ELSE SubSeq(text, 1, i) \o repl \o SubSeq(text, i + Len(pat) + 1, Len(text))

\* String.prototype.startsWith
StartsWith(text, pat) == Len(text) >= Len(pat) /\ SubSeq(text, 1, Len(pat)) = pat

\* String.prototype.trim
RECURSIVE Trim(_)
Trim(s) ==
  IF s = <<>> THEN s
  ELSE IF Head(s) \in Whitespace THEN Trim(Tail(s))
  ELSE IF s[Len(s)] \in Whitespace THEN Trim(SubSeq(s, 1, Len(s) - 1))
  ELSE s

\* the decimal digits of a natural number
RECURSIVE NumToStr(_)
NumToStr(n) ==
  IF n < 10 THEN <<Digits[n + 1]>> ELSE NumToStr(n \div 10) \o <<Digits[(n % 10) + 1]>>

(***************************************************************************)
(* JavaScript values.                                                      *)
(***************************************************************************)
Undefined == [t |-> "undefined"]
Null == [t |-> "null"]
Str(s) == [t |-> "string", v |-> s]
Num(n) == [t |-> "number", v |-> n]
Obj(f) == [t |-> "object", f |-> f]
Fn(n) == [t |-> "function", name |-> n]
NodeRef(i) == [t |-> "node", id |-> i]

\* String(value), the conversion String.prototype.replace and createTextNode apply
JsString(v) ==
  CASE v.t = "undefined" -> sUndefined
    [] v.t = "null" -> sNull
    [] v.t = "string" -> v.v
    [] v.t = "number" -> NumToStr(v.v)
    [] v.t = "object" -> sObject
    [] v.t = "function" -> sFunction
    [] v.t = "node" -> sElement

\* truthiness of a value, as `!x`, `x || y` and `if (x)` read it
Truthy(v) ==
  CASE v.t = "undefined" -> FALSE
    [] v.t = "null" -> FALSE
    [] v.t = "string" -> v.v # <<>>
    [] v.t = "number" -> v.v # 0
    [] OTHER -> TRUE

\* an object literal with no own property
EmptyObj == Obj([k \in {} |-> Undefined])

(***************************************************************************)
(* The host platform's node tree: heap[i] is the node of identity i.       *)
(* parentNode = 0 stands for null.                                         *)
(***************************************************************************)
\* document.createElement(tag)
NewElement(tag) ==
  [nodeType |-> "element", tagName |-> tag, attrs |-> <<>>, childNodes |-> <<>>,
   nodeValue |-> <<>>, parentNode |-> 0, listeners |-> <<>>]

\* document.createTextNode(data)
NewText(data) ==
  [nodeType |-> "text", tagName |-> <<>>, attrs |-> <<>>, childNodes |-> <<>>,
   nodeValue |-> data, parentNode |-> 0, listeners |-> <<>>]

\* parent.appendChild(child) for a child that has no parent yet
AppendChild(h, parent, child) ==
  [h EXCEPT ![parent].childNodes = Append(@, child), ![child].parentNode = parent]

\* parent.removeChild(child)
RemoveChild(h, parent, child) ==
  [h EXCEPT ![parent].childNodes = SelectSeq(@, LAMBDA c : c # child),
            ![child].parentNode = 0]

\* elem.setAttribute(name, value): overwrites in place, appends a new name
SetAttribute(h, id, name, value) ==
  LET as == h[id].attrs
      at == {i \in 1..Len(as) : as[i].name = name}
  IN  IF at = {}
      THEN [h EXCEPT ![id].attrs = Append(@, [name |-> name, value |-> value])]
      ELSE [h EXCEPT ![id].attrs = [i \in 1..Len(as) |->
                                      IF i \in at THEN [name |-> name, value |-> value]
                                      ELSE as[i]]]

\* elem.getAttribute(name): the value, or null
GetAttribute(node, name) ==
  LET at == {i \in 1..Len(node.attrs) : node.attrs[i].name = name}
  IN  IF at = {} THEN Null ELSE Str(node.attrs[CHOOSE i \in at : TRUE].value)

\* elem.addEventListener(type, handler)
AddEventListener(h, id, type, handler) ==
  [h EXCEPT ![id].listeners = Append(@, [type |-> type, handler |-> handler])]

\* node.firstChild, 0 for null
FirstChild(h, id) == IF h[id].childNodes = <<>> THEN 0 ELSE h[id].childNodes[1]

(***************************************************************************)
(* Property access, obj[key]: a read of undefined or null throws a         *)
(* TypeError, a missing property reads as undefined.                       *)
(***************************************************************************)
Ok(v) == [threw |-> FALSE, val |-> v]
Threw == [threw |-> TRUE, val |-> Undefined]

Get(obj, key, h) ==
  CASE obj.t \in {"undefined", "null"} -> Threw
    [] obj.t = "object" -> IF key \in DOMAIN obj.f THEN Ok(obj.f[key]) ELSE Ok(Undefined)
    [] obj.t = "string" -> IF key = sLength THEN Ok(Num(Len(obj.v))) ELSE Ok(Undefined)
    [] obj.t = "node" ->
         IF key = sChildElementCount
         THEN Ok(Num(Cardinality({i \in 1..Len(h[obj.id].childNodes) :
                                    h[h[obj.id].childNodes[i]].nodeType = "element"})))
         ELSE IF key = sTagName THEN Ok(Str(h[obj.id].tagName))
         ELSE Ok(Undefined)
    [] OTHER -> Ok(Undefined)

\* for (i ...) tempObj = tempObj[properties[i]]
RECURSIVE Lookup(_, _, _)
Lookup(obj, props, h) ==
  IF props = <<>> THEN Ok(obj)
  ELSE LET g == Get(obj, Head(props), h)
       IN  IF g.threw THEN g ELSE Lookup(g.val, Tail(props), h)

(***************************************************************************)
(* convertTextVariables (lines 410-451).  The registry of definitions      *)
(* comps maps a component name to its definition object, the registry of   *)
(* instances els maps an element key to {state, dom} or undefined.         *)
(*                                                                         *)
(* The value of a local of the code is passed on as the last parameter of  *)
(* the operator that models the lines after its assignment.                *)
(***************************************************************************)
Returned(v) == [kind |-> "return", val |-> v]
Thrown == [kind |-> "throw", val |-> Undefined]
Hang == [kind |-> "hang", val |-> Undefined]

\* obj[key] of a registry object: undefined for a key never written
At(reg, key) == IF key \in DOMAIN reg THEN reg[key] ELSE Undefined

\* line 443, with tempObj what the loop of lines 439-441 came to
WhileReplace(text, variable, tempObj) ==
  IF tempObj.threw THEN [kind |-> "throw", text |-> text]
  ELSE [kind |-> "continue",
        text |-> Replace(text, LB \o variable \o RB, JsString(tempObj.val))]

\* lines 436-441
WhileBody(text, entry, h, variable) ==
  WhileReplace(text, variable, Lookup(entry, Split(variable), h))

\* the second operand of the while condition (line 434), then the body
WhileEnd(text, entry, h, startIndex, endIndex) ==
  IF endIndex = 0 THEN [kind |-> "return", text |-> text]
  ELSE WhileBody(text, entry, h, Substring(text, startIndex + 2, endIndex))

\* WhileStart without the comparison with -1: the body runs whatever indexOf found
WhileStartAlways(text, entry, h, startIndex) ==
  WhileEnd(text, entry, h, startIndex, IndexOf(text, RB, startIndex + 2))

\* the first operand of the while condition (line 433)
WhileStart(text, entry, h, startIndex) ==
  IF ~(startIndex > -1) THEN [kind |-> "return", text |-> text]
  ELSE WhileEnd(text, entry, h, startIndex, IndexOf(text, RB, startIndex + 2))

\* one evaluation of the while condition (lines 433-434) and, when it holds,
\* of the loop body (lines 436-446); startIndex is 0 whenever the condition is read
WhileStep(text, entry, h) == WhileStart(text, entry, h, IndexOf(text, LB, 0))

\* the while loop of lines 432-449: an iteration that leaves text as it was
\* leaves the whole loop state as it was, and the loop never ends
RECURSIVE WhileLoop(_, _, _)
WhileNext(text, entry, h, s) ==
  CASE s.kind = "return" -> Returned(Str(text))
    [] s.kind = "throw" -> Thrown
    [] s.kind = "continue" -> IF s.text = text THEN Hang ELSE WhileLoop(s.text, entry, h)
WhileLoop(text, entry, h) == WhileNext(text, entry, h, WhileStep(text, entry, h))

\* lines 424-428
DefinitionLookup(tempObj) == IF tempObj.threw THEN Thrown ELSE Returned(tempObj.val)

\* lines 419-422
DefinitionEnd(text, componentName, comps, h, startIndex) ==
  DefinitionLookup(
    Lookup(At(comps, componentName),
           Split(Substring(text, startIndex + 2, IndexOf(text, RB, startIndex + 2))), h))

\* the branch taken without a component key (lines 418-428)
DefinitionTime(text, componentName, comps, h) ==
  DefinitionEnd(text, componentName, comps, h, IndexOf(text, LB, 0))

\* lines 417-450, key being componentKey.toString()
ConvertWithKey(text, componentName, key, comps, els, h) ==
  IF key = <<>> THEN DefinitionTime(text, componentName, comps, h)
  ELSE WhileLoop(text, At(els, componentName \o key), h)

convertTextVariables(text, componentName, componentKey, comps, els, h) ==
  IF componentKey.t \in {"undefined", "null"} THEN Thrown
  ELSE ConvertWithKey(text, componentName, JsString(componentKey), comps, els, h)

\* componentName + componentKey, the key of the instance registry
ElementKey(componentName, componentKey) == componentName \o JsString(componentKey)

(***************************************************************************)
(* createSkeleton (lines 336-371).  The markup that innerHTML parsed is a  *)
(* tree of records; a skeleton is null, a string or a node record.         *)
(***************************************************************************)
El(tag, attributes, childNodes) ==
  [nodeType |-> "element", tagName |-> tag, attributes |-> attributes,
   childNodes |-> childNodes, nodeValue |-> <<>>]
Tx(data) ==
  [nodeType |-> "text", tagName |-> <<>>, attributes |-> <<>>,
   childNodes |-> <<>>, nodeValue |-> data]
Attr(name, value) == [name |-> name, value |-> value, specified |-> TRUE]

SkNull == [kind |-> "null"]
SkString(text) == [kind |-> "string", text |-> text]
SkNode(tag, attrs, children) ==
  [kind |-> "node", tag |-> tag, attrs |-> attrs, children |-> children]

RECURSIVE createSkeleton(_, _, _, _, _)
RECURSIVE skeletonAttrs(_, _, _, _, _, _, _)
RECURSIVE skeletonChildren(_, _, _, _, _, _, _)

\* line 356, func being what line 355 got
skeletonEventAttr(attributes, i, attrs, componentName, comps, els, h, func) ==
  IF func.kind # "return" THEN [kind |-> func.kind, attrs |-> attrs]
  ELSE skeletonAttrs(attributes, i + 1,
                     Append(attrs, [name |-> attributes[i].name, value |-> func.val]),
                     componentName, comps, els, h)

\* the loop of lines 352-361 from attribute i on, attrs being what is stored so far
skeletonAttrs(attributes, i, attrs, componentName, comps, els, h) ==
  IF i > Len(attributes) THEN [kind |-> "ok", attrs |-> attrs]
  ELSE IF ~attributes[i].specified
  THEN skeletonAttrs(attributes, i + 1, attrs, componentName, comps, els, h)
  ELSE IF StartsWith(attributes[i].name, <<"o", "n">>)
  THEN skeletonEventAttr(attributes, i, attrs, componentName, comps, els, h,
                         convertTextVariables(attributes[i].value, JsString(componentName),
                                              Undefined, comps, els, h))
  ELSE skeletonAttrs(attributes, i + 1,
                     Append(attrs, [name |-> attributes[i].name,
                                    value |-> Str(attributes[i].value)]),
                     componentName, comps, els, h)

\* lines 366-367, childSkeleton being what line 364 got
skeletonPush(childNodes, i, children, componentName, comps, els, h, childSkeleton) ==
  IF childSkeleton.kind # "ok" THEN [kind |-> childSkeleton.kind, children |-> children]
  ELSE skeletonChildren(childNodes, i + 1,
                        IF childSkeleton.skel = SkNull THEN children
                        ELSE Append(children, childSkeleton.skel),
                        componentName, comps, els, h)

\* the loop of lines 363-368 from child i on
skeletonChildren(childNodes, i, children, componentName, comps, els, h) ==
  IF i > Len(childNodes) THEN [kind |-> "ok", children |-> children]
  ELSE skeletonPush(childNodes, i, children, componentName, comps, els, h,
                    createSkeleton(childNodes[i], componentName, comps, els, h))

\* line 370, c being what the loop of lines 363-368 came to
skeletonReturn(child, a, c) ==
  IF c.kind # "ok" THEN [kind |-> c.kind, skel |-> SkNull]
  ELSE [kind |-> "ok", skel |-> SkNode(child.tagName, a.attrs, c.children)]

\* lines 363-370, a being what the loop of lines 352-361 came to
skeletonElement(child, componentName, comps, els, h, a) ==
  IF a.kind # "ok" THEN [kind |-> a.kind, skel |-> SkNull]
  ELSE skeletonReturn(child, a,
                      skeletonChildren(child.childNodes, 1, <<>>, componentName,
                                       comps, els, h))

\* lines 338-343
skeletonText(nodeValue) ==
  [kind |-> "ok", skel |-> IF nodeValue # <<>> THEN SkString(nodeValue) ELSE SkNull]

createSkeleton(child, componentName, comps, els, h) ==
  IF child.nodeType # "element" THEN skeletonText(Trim(child.nodeValue))
  ELSE skeletonElement(child, componentName, comps, els, h,
                       skeletonAttrs(child.attributes, 1, <<>>, componentName,
                                     comps, els, h))

\* the loop of lines 161-165 (and 129-132, 297-301): the first element node, 0 if none
FirstElementIndex(childNodes) ==
  LET at == {i \in 1..Len(childNodes) : childNodes[i].nodeType = "element"}
  IN  IF at = {} THEN 0 ELSE CHOOSE i \in at : \A j \in at : i <= j

(***************************************************************************)
(* connectComponent (lines 195-221): the mount walk.  The nodes a failed   *)
(* walk created are attached nowhere; the heap is returned without them.   *)
(***************************************************************************)
RECURSIVE connectComponent(_, _, _, _, _, _, _)
RECURSIVE connectAttrs(_, _, _, _, _, _, _, _)
RECURSIVE connectChildren(_, _, _, _, _, _, _, _)

\* line 213, result being what line 212 got
connectSetAttr(h, elem, skeleton, i, componentName, componentKey, comps, els, result) ==
  IF result.kind # "return" THEN [kind |-> result.kind, heap |-> h]
  ELSE connectAttrs(SetAttribute(h, elem, skeleton.attrs[i].name, JsString(result.val)),
                    elem, skeleton, i + 1, componentName, componentKey, comps, els)

\* the loop of lines 205-215 from attribute i on
connectAttrs(h, elem, skeleton, i, componentName, componentKey, comps, els) ==
  IF i > Len(skeleton.attrs) THEN [kind |-> "ok", heap |-> h]
  ELSE IF StartsWith(skeleton.attrs[i].name, <<"o", "n">>)
  THEN connectAttrs(AddEventListener(h, elem,
                                     SubSeq(skeleton.attrs[i].name, 3,
                                            Len(skeleton.attrs[i].name)),
                                     [handler |-> skeleton.attrs[i].value,
                                      name |-> componentName, key |-> componentKey]),
                    elem, skeleton, i + 1, componentName, componentKey, comps, els)
  ELSE IF skeleton.attrs[i].value.t # "string" THEN [kind |-> "throw", heap |-> h]
  ELSE connectSetAttr(h, elem, skeleton, i, componentName, componentKey, comps, els,
                      convertTextVariables(skeleton.attrs[i].value.v, componentName,
                                           componentKey, comps, els, h))

\* the next turn of the loop of lines 217-218, c being what the call of line 218 got
connectNextChild(elem, skeleton, i, componentName, componentKey, comps, els, c) ==
  IF c.kind # "ok" THEN c
  ELSE connectChildren(c.heap, elem, skeleton, i + 1, componentName, componentKey,
                       comps, els)

\* the loop of lines 217-218 from child i on
connectChildren(h, elem, skeleton, i, componentName, componentKey, comps, els) ==
  IF i > Len(skeleton.children) THEN [kind |-> "ok", heap |-> h]
  ELSE connectNextChild(elem, skeleton, i, componentName, componentKey, comps, els,
                        connectComponent(h, elem, skeleton.children[i], componentName,
                                         componentKey, comps, els))

\* lines 198-200, text being what convertTextVariables got
connectText(h, dom, text) ==
  IF text.kind # "return" THEN [kind |-> text.kind, heap |-> h]
  ELSE [kind |-> "ok",
        heap |-> AppendChild(Append(h, NewText(JsString(text.val))), dom, Len(h) + 1)]

\* line 220, c being what the loop of lines 217-218 came to
connectAppend(h, dom, elem, c) ==
  IF c.kind # "ok" THEN [kind |-> c.kind, heap |-> h]
  ELSE [kind |-> "ok", heap |-> AppendChild(c.heap, dom, elem)]

\* lines 217-220, a being what the loop of lines 205-215 came to
connectElement(h, dom, elem, skeleton, componentName, componentKey, comps, els, a) ==
  IF a.kind # "ok" THEN [kind |-> a.kind, heap |-> h]
  ELSE connectAppend(h, dom, elem,
                     connectChildren(a.heap, elem, skeleton, 1, componentName,
                                     componentKey, comps, els))

connectComponent(h, dom, skeleton, componentName, componentKey, comps, els) ==
  IF skeleton.kind = "string"
  THEN connectText(h, dom, convertTextVariables(skeleton.text, componentName,
                                                componentKey, comps, els, h))
  ELSE IF skeleton.kind # "node" THEN [kind |-> "throw", heap |-> h]
  ELSE connectElement(h, dom, Len(h) + 1, skeleton, componentName, componentKey, comps, els,
                      connectAttrs(Append(h, NewElement(skeleton.tag)), Len(h) + 1,
                                   skeleton, 1, componentName, componentKey, comps, els))

(***************************************************************************)
(* updateComponent (lines 247-265): the update walk.  What it wrote before *)
(* a failure stays written.                                                *)
(***************************************************************************)
RECURSIVE updateComponent(_, _, _, _, _, _, _)
RECURSIVE updateAttrs(_, _, _, _, _, _, _, _)
RECURSIVE updateChildren(_, _, _, _, _, _, _, _)

\* line 258, result being what line 257 got; a text node has no setAttribute
updateSetAttr(h, dom, skeleton, i, componentName, componentKey, comps, els, result) ==
  IF result.kind # "return" THEN [kind |-> result.kind, heap |-> h]
  ELSE IF h[dom].nodeType # "element" THEN [kind |-> "throw", heap |-> h]
  ELSE updateAttrs(SetAttribute(h, dom, skeleton.attrs[i].name, JsString(result.val)),
                   dom, skeleton, i + 1, componentName, componentKey, comps, els)

\* the loop of lines 253-260 from attribute i on
updateAttrs(h, dom, skeleton, i, componentName, componentKey, comps, els) ==
  IF i > Len(skeleton.attrs) THEN [kind |-> "ok", heap |-> h]
  ELSE IF skeleton.attrs[i].value.t = "function"
  THEN updateAttrs(h, dom, skeleton, i + 1, componentName, componentKey, comps, els)
  ELSE IF skeleton.attrs[i].value.t # "string" THEN [kind |-> "throw", heap |-> h]
  ELSE updateSetAttr(h, dom, skeleton, i, componentName, componentKey, comps, els,
                     convertTextVariables(skeleton.attrs[i].value.v, componentName,
                                          componentKey, comps, els, h))

\* the next turn of the loop of lines 262-264, c being what the call of line 263 got
updateNextChild(dom, skeleton, i, componentName, componentKey, comps, els, c) ==
  IF c.kind # "ok" THEN c
  ELSE updateChildren(c.heap, dom, skeleton, i + 1, componentName, componentKey,
                      comps, els)

\* the loop of lines 262-264 from host child i on (i counts from 1 here):
\* skeleton.children[i] is undefined past the end of the skeleton's children
updateChildren(h, dom, skeleton, i, componentName, componentKey, comps, els) ==
  IF i > Len(h[dom].childNodes) THEN [kind |-> "ok", heap |-> h]
  ELSE updateNextChild(dom, skeleton, i, componentName, componentKey, comps, els,
                       updateComponent(h, h[dom].childNodes[i],
                                       IF i <= Len(skeleton.children)
                                       THEN skeleton.children[i] ELSE SkNull,
                                       componentName, componentKey, comps, els))

\* updateText without the assignment of line 249: the host text keeps its value
updateTextKeep(h, dom, text) ==
  IF text.kind # "return" THEN [kind |-> text.kind, heap |-> h]
  ELSE [kind |-> "ok", heap |-> h]

\* updateText that puts a new text node beside the old one instead of writing to it
updateTextRecreate(h, dom, text) ==
  IF text.kind # "return" THEN [kind |-> text.kind, heap |-> h]
  ELSE [kind |-> "ok",
        heap |-> AppendChild(Append(h, NewText(JsString(text.val))), h[dom].parentNode,
                             Len(h) + 1)]

\* line 249, text being what convertTextVariables got; an element has no nodeValue to set
updateText(h, dom, text) ==
  IF text.kind # "return" THEN [kind |-> text.kind, heap |-> h]
  ELSE [kind |-> "ok",
        heap |-> IF h[dom].nodeType = "text"
                 THEN [h EXCEPT ![dom].nodeValue = JsString(text.val)]
                 ELSE h]

\* lines 262-264, a being what the loop of lines 253-260 came to
updateElement(dom, skeleton, componentName, componentKey, comps, els, a) ==
  IF a.kind # "ok" THEN a
  ELSE updateChildren(a.heap, dom, skeleton, 1, componentName, componentKey, comps, els)

updateComponent(h, dom, skeleton, componentName, componentKey, comps, els) ==
  IF skeleton.kind = "string"
  THEN updateText(h, dom, convertTextVariables(skeleton.text, componentName,
                                               componentKey, comps, els, h))
  ELSE IF skeleton.kind # "node" THEN [kind |-> "throw", heap |-> h]
  ELSE updateElement(dom, skeleton, componentName, componentKey, comps, els,
                     updateAttrs(h, dom, skeleton, 1, componentName, componentKey,
                                 comps, els))

(***************************************************************************)
(* The applications of the model: component definitions as createComponent *)
(* (lines 75-85) returns them, and a page as createPage (lines 98-107)     *)
(* returns it.  render and contents are given by the node tree that        *)
(* innerHTML parses their markup into.                                     *)
(***************************************************************************)
tSPAN == <<"S", "P", "A", "N">>
tDIV == <<"D", "I", "V">>
tBUTTON == <<"B", "U", "T", "T", "O", "N">>
tB == <<"B">>
tI == <<"I">>
tMAIN == <<"M", "A", "I", "N">>

\* {{path}}
Placeholder(path) == LB \o path \o RB

S0 == Obj(sCount :> Num(0))
S5 == Obj(sCount :> Num(5))
SA == Obj(sCount :> Num(1) @@ sA :> Obj(sB :> Num(2)))
SB == Obj(sCount :> Num(7) @@ sA :> Obj(sB :> Num(8)))
\* the states setState is called with
States == {S5, SA, SB, EmptyObj}
\* the states an updated hook goes on to set, one nested setState after another
Nested == {<<>>, <<SB, S5>>}

AllHooks == {"created", "connected", "disconnected", "updated"}

\* <span>{{state.count}}</span>, state {count: 0}
Counter ==
  [name |-> <<"c">>, state |-> S0, methods |-> {}, hooks |-> AllHooks, createdSets |-> Undefined,
   render |-> <<Tx(<<" ">>),
                El(tSPAN, <<>>, <<Tx(Placeholder(sState \o DOT \o sCount))>>)>>]

\* <span>{{count}}</span>, state {count: 0}
Plain ==
  [name |-> <<"p">>, state |-> S0, methods |-> {}, hooks |-> AllHooks, createdSets |-> Undefined,
   render |-> <<El(tSPAN, <<>>, <<Tx(Placeholder(sCount))>>)>>]

\* <button onclick="increment">{{state.count}}</button>, with a method increment
Button ==
  [name |-> <<"b">>, state |-> S0, methods |-> {sIncrement}, hooks |-> AllHooks, createdSets |-> Undefined,
   render |-> <<El(tBUTTON, <<Attr(sOnclick, sIncrement)>>,
                   <<Tx(Placeholder(sState \o DOT \o sCount))>>)>>]

\* <span>{{dom.childElementCount}}</span>
Probe ==
  [name |-> <<"q">>, state |-> S0, methods |-> {}, hooks |-> AllHooks, createdSets |-> Undefined,
   render |-> <<El(tSPAN, <<>>, <<Tx(Placeholder(sDom \o DOT \o sChildElementCount))>>)>>]

\* <div class="{{state.count}}"> <b>{{state.count}}</b><i>{{state.a.b}}</i>n={{state.count}} </div>
Card ==
  [name |-> <<"n">>, state |-> SA, methods |-> {}, hooks |-> AllHooks, createdSets |-> Undefined,
   render |-> <<El(tDIV, <<Attr(sClass, Placeholder(sState \o DOT \o sCount))>>,
                   <<Tx(<<" ">>),
                     El(tB, <<>>, <<Tx(Placeholder(sState \o DOT \o sCount))>>),
                     El(tI, <<>>, <<Tx(Placeholder(sState \o DOT \o sA \o DOT \o sB))>>),
                     Tx(<<"n", "=">> \o Placeholder(sState \o DOT \o sCount) \o <<" ">>)>>)>>]

\* <b>{{state.count}}</b>, state {count: 5}, under the name "c1"
Twin ==
  [name |-> <<"c", "1">>, state |-> S5, methods |-> {}, hooks |-> AllHooks, createdSets |-> Undefined,
   render |-> <<El(tB, <<>>, <<Tx(Placeholder(sState \o DOT \o sCount))>>)>>]

\* <span>{{state.count}}</span>, state {count: 0}, with a created hook that calls
\* this.setState({count: 5})
Eager ==
  [name |-> <<"e">>, state |-> S0, methods |-> {}, hooks |-> AllHooks, createdSets |-> S5,
   render |-> <<El(tSPAN, <<>>, <<Tx(Placeholder(sState \o DOT \o sCount))>>)>>]

Definitions == {Counter, Plain, Button, Probe, Card, Twin, Eager}

\* <main><div lucid-component="NAME" lucid-key="1">fallback</div></main>
PageFor(name) ==
  <<El(tMAIN, <<>>,
       <<El(tDIV, <<Attr(sLucidComponent, name), Attr(sLucidKey, <<"1">>)>>,
            <<Tx(<<"f", "b">>)>>)>>)>>

\* createApp (lines 117-146): one page and the registered components
Apps ==
  {[components |-> {d}, contents |-> PageFor(d.name)] : d \in Definitions}
  \cup {[components |-> {Counter, Twin}, contents |-> PageFor(Counter.name)]}

\* the component names the entry points are called with: the registered ones and
\* "c1", which only some applications register
CallNames(a) == {d.name : d \in a.components} \cup {Twin.name}

\* the keys an instance is rendered under
Keys == {Str(<<"1">>), Str(<<>>)}

\* Lucid.app.components as convertTextVariables reads it
ComponentObject(d) ==
  Obj(sName :> Str(d.name) @@ sState :> d.state
      @@ sMethods :> Obj([m \in d.methods |-> Fn(m)]))
Comps(a) == [n \in {d.name : d \in a.components} |-> ComponentObject(CHOOSE d \in a.components : d.name = n)]
DefOf(a, n) == CHOOSE d \in a.components : d.name = n
Registered(a, n) == \E d \in a.components : d.name = n

(***************************************************************************)
(* The state of the program.                                               *)
(***************************************************************************)
VARIABLES
  app,          \* Lucid.app: the registered components and the page
  heap,         \* the host platform's nodes; node 1 is the app's container
  elements,     \* Lucid.app.page.elements: element key -> {state, dom} or undefined
  skeleton,     \* component name -> the cached skeleton, SkNull while there is none
  pageSkeleton, \* Lucid.app.page.skeleton
  hookLog,      \* what the hooks of the components recorded, in firing order
  contexts,     \* the bound contexts the hooks retained
  lastCall,     \* the last call of an entry point and how it ended
  calls,        \* the number of calls so far
  mounts,       \* element key -> the host nodes the last completed mount produced
  mutated,      \* the element keys whose host subtree was changed from outside
  renders,      \* component name -> the number of calls of its render function
  itext,        \* convertTextVariables, run step by step: the local variable text
  ientry,       \*   the registry entry it resolves against
  iinput,       \*   the text it was called with
  ipc,          \*   where it stands: "call", "test", "body", "returned" or "threw"
  ikey,         \*   the componentKey it was called with
  iresult       \*   what its definition-time branch returned

vars == <<app, heap, elements, skeleton, pageSkeleton, hookLog, contexts, lastCall,
          calls, mounts, mutated, renders, itext, ientry, iinput, ipc, ikey, iresult>>
lifecycleVars == <<app, heap, elements, skeleton, pageSkeleton, hookLog, contexts,
                   lastCall, calls, mounts, mutated, renders>>
interpVars == <<itext, ientry, iinput, ipc, ikey, iresult>>

Container == 1

\* the program's own state, as the handlers thread it
World == [heap |-> heap, elements |-> elements, skeleton |-> skeleton,
          hookLog |-> hookLog, contexts |-> contexts, renders |-> renders,
          pending |-> <<>>]

EntryOf(state, dom) == Obj(sState :> state @@ sDom :> NodeRef(dom))
EntryState(e) == e.f[sState]
EntryDom(e) == e.f[sDom].id

(***************************************************************************)
(* getThisParameter (lines 380-400) and the firing of a hook.  A hook of   *)
(* the model's components records the call, what its bound context holds   *)
(* and what the registry and the host tree hold at that moment, and keeps  *)
(* the context for later calls of setState.  A created hook of a component *)
(* with createdSets then calls this.setState(createdSets); an updated hook *)
(* calls this.setState with the next of the pending states, if any.        *)
(***************************************************************************)
RECURSIVE setState(_, _, _, _)
\* lines 382-399, entry being Lucid.app.page.elements[elementKey]
ThisOf(componentName, componentKey, entry, h) ==
  IF entry = Undefined THEN [threw |-> TRUE, this |-> Undefined]
  ELSE [threw |-> FALSE,
        this |-> [name |-> componentName, key |-> componentKey,
                  dom |-> FirstChild(h, EntryDom(entry)), state |-> EntryState(entry)]]

getThisParameter(componentName, componentKey, els, h) ==
  ThisOf(componentName, componentKey, At(els, ElementKey(componentName, componentKey)), h)

\* what a hook records: entry is the registry entry of its instance
HookRecord(w, hook, this, entry) ==
  [hook |-> hook, this |-> this, entry |-> entry,
   attached |-> entry # Undefined /\ w.heap[EntryDom(entry)].parentNode # 0,
   mounted |-> entry # Undefined /\ FirstChild(w.heap, EntryDom(entry)) # 0]

\* what the hook goes on to do, w holding its record: the setState calls of lines
\* 387-398 made from inside a hook
HookAct(w, a, hook, this) ==
  IF hook = "created" /\ DefOf(a, this.name).createdSets # Undefined
  THEN setState(w, a, this, DefOf(a, this.name).createdSets)
  ELSE IF hook = "updated" /\ w.pending # <<>>
  THEN setState([w EXCEPT !.pending = Tail(@)], a, this, Head(w.pending))
  ELSE [kind |-> "ok", w |-> w]

\* the body of a hook, called with `this`
HookBody(w, a, hook, this) ==
  HookAct([w EXCEPT !.hookLog = Append(@, HookRecord(w, hook, this,
                                                     At(w.elements,
                                                        ElementKey(this.name, this.key)))),
                    !.contexts = @ \cup {this}],
          a, hook, this)

\* the call of the hook, t being what getThisParameter got
HookCall(w, a, hook, t) ==
  IF t.threw THEN [kind |-> "throw", w |-> w]
  ELSE HookBody(w, a, hook, t.this)

\* hooks && hooks.NAME && hooks.NAME.call(getThisParameter(componentName, componentKey))
FireHook(w, a, componentName, componentKey, hook) ==
  IF ~Registered(a, componentName) THEN [kind |-> "throw", w |-> w]
  ELSE IF hook \notin DefOf(a, componentName).hooks THEN [kind |-> "ok", w |-> w]
  ELSE HookCall(w, a, hook,
                getThisParameter(componentName, componentKey, w.elements, w.heap))

(***************************************************************************)
(* The lazy build of a component's skeleton (lines 156-166 and 292-302).   *)
(***************************************************************************)
\* line 163, built being what createSkeleton got
StoreSkeleton(w, componentName, built) ==
  IF built.kind # "ok" THEN [kind |-> built.kind, w |-> w]
  ELSE [kind |-> "ok", w |-> [w EXCEPT !.skeleton[componentName] = built.skel]]

\* lines 161-165, i being the index of the first element node
BuildSkeleton(w, a, componentName, childNodes, i) ==
  IF i = 0 THEN [kind |-> "ok", w |-> w]
  ELSE StoreSkeleton(w, componentName,
                     createSkeleton(childNodes[i], Str(componentName), Comps(a),
                                    w.elements, w.heap))

\* lines 156-166: without a cached skeleton, render() is called (line 158) and
\* its markup parsed
EnsureSkeleton(w, a, componentName) ==
  IF w.skeleton[componentName] # SkNull THEN [kind |-> "ok", w |-> w]
  ELSE BuildSkeleton([w EXCEPT !.renders[componentName] = @ + 1], a, componentName,
                     DefOf(a, componentName).render,
                     FirstElementIndex(DefOf(a, componentName).render))

(***************************************************************************)
(* renderComponent (lines 154-186).                                        *)
(***************************************************************************)
\* lines 182-185, c being what connectComponent got
renderAppend(w, a, dom, elem, componentName, componentKey, c) ==
  IF c.kind # "ok" THEN [kind |-> c.kind, w |-> [w EXCEPT !.heap = c.heap]]
  ELSE FireHook([w EXCEPT !.heap = AppendChild(c.heap, dom, elem)], a,
                componentName, componentKey, "connected")

\* line 181, created being how the hook of line 179 ended
renderConnect(a, dom, elem, componentName, componentKey, created) ==
  IF created.kind # "ok" THEN created
  ELSE renderAppend(created.w, a, dom, elem, componentName, componentKey,
                    connectComponent(created.w.heap, elem,
                                     created.w.skeleton[componentName], componentName,
                                     componentKey, Comps(a), created.w.elements))

\* renderElement with the registry entry of line 176 written after the hook of line 179
renderElementLate(w, a, dom, elem, componentName, componentKey) ==
  LET created ==
        FireHook([w EXCEPT
                    !.heap = SetAttribute(SetAttribute(Append(w.heap, NewElement(tDIV)),
                                                       elem, sLucidComponent, componentName),
                                          elem, sLucidKey, JsString(componentKey))],
                 a, componentName, componentKey, "created")
  IN  renderConnect(a, dom, elem, componentName, componentKey,
                    [kind |-> created.kind,
                     w |-> [created.w EXCEPT
                              !.elements = (ElementKey(componentName, componentKey)
                                              :> EntryOf(DefOf(a, componentName).state,
                                                         elem)) @@ @]])

\* lines 168-179, elem being the node line 168 creates
renderElement(w, a, dom, elem, componentName, componentKey) ==
  renderConnect(a, dom, elem, componentName, componentKey,
    FireHook([w EXCEPT
                !.heap = SetAttribute(SetAttribute(Append(w.heap, NewElement(tDIV)), elem,
                                                   sLucidComponent, componentName),
                                      elem, sLucidKey, JsString(componentKey)),
                !.elements = (ElementKey(componentName, componentKey)
                                :> EntryOf(DefOf(a, componentName).state, elem)) @@ @],
             a, componentName, componentKey, "created"))

\* lines 168-185, s being how the build of lines 156-166 ended
renderBuilt(a, dom, componentName, componentKey, s) ==
  IF s.kind # "ok" THEN s
  ELSE renderElement(s.w, a, dom, Len(s.w.heap) + 1, componentName, componentKey)

renderComponent(w, a, dom, componentName, componentKey) ==
  IF ~Registered(a, componentName) THEN [kind |-> "throw", w |-> w]
  ELSE renderBuilt(a, dom, componentName, componentKey, EnsureSkeleton(w, a, componentName))

(***************************************************************************)
(* connectPage (lines 272-327).                                            *)
(***************************************************************************)
RECURSIVE connectPage(_, _, _, _)
RECURSIVE connectPageChildren(_, _, _, _, _)
RECURSIVE pageAttrs(_, _, _, _)

\* the loop of lines 282-283 from attribute i on
pageAttrs(h, elem, attrs, i) ==
  IF i > Len(attrs) THEN h
  ELSE pageAttrs(SetAttribute(h, elem, attrs[i].name, JsString(attrs[i].value)),
                 elem, attrs, i + 1)

\* the next turn of the loop of lines 323-324, c being what the call of line 324 got
pageNextChild(a, elem, skel, i, c) ==
  IF c.kind # "ok" THEN c ELSE connectPageChildren(c.w, a, elem, skel, i + 1)

\* the loop of lines 323-324 from child i on
connectPageChildren(w, a, elem, skel, i) ==
  IF i > Len(skel.children) THEN [kind |-> "ok", w |-> w]
  ELSE pageNextChild(a, elem, skel, i, connectPage(w, a, elem, skel.children[i]))

\* placeholderConnected without the hook of line 320
placeholderConnectedSilent(w, a, componentName, componentKey, c) ==
  [kind |-> c.kind, w |-> [w EXCEPT !.heap = c.heap]]

\* line 320, c being what the call of lines 315-317 got
placeholderConnected(w, a, componentName, componentKey, c) ==
  IF c.kind # "ok" THEN [kind |-> c.kind, w |-> [w EXCEPT !.heap = c.heap]]
  ELSE FireHook([w EXCEPT !.heap = c.heap], a, componentName, componentKey, "connected")

\* lines 315-317, created being how the hook of line 313 ended
placeholderConnect(a, elem, componentName, componentKey, created) ==
  IF created.kind # "ok" THEN created
  ELSE placeholderConnected(created.w, a, componentName, componentKey,
                            connectComponent(created.w.heap, elem,
                                             created.w.skeleton[componentName],
                                             componentName, componentKey, Comps(a),
                                             created.w.elements))

\* lines 304-313, s being how the build of lines 292-302 ended
placeholderBuilt(a, elem, componentName, componentKey, s) ==
  IF s.kind # "ok" THEN s
  ELSE placeholderConnect(a, elem, componentName, componentKey,
         FireHook([s.w EXCEPT !.elements = (ElementKey(componentName, componentKey)
                                              :> EntryOf(DefOf(a, componentName).state, elem))
                                           @@ @],
                  a, componentName, componentKey, "created"))

\* lines 291-321: the element carries a component name or a key; the name is a
\* property key here, and null reads as "null"
connectPlaceholder(w, a, elem, componentName, componentKey) ==
  IF ~Registered(a, componentName) THEN [kind |-> "throw", w |-> w]
  ELSE placeholderBuilt(a, elem, componentName, componentKey,
                        EnsureSkeleton(w, a, componentName))

\* line 326, c being what the loop of lines 323-324 came to
pageAppend(dom, elem, c) ==
  IF c.kind # "ok" THEN c
  ELSE [kind |-> "ok", w |-> [c.w EXCEPT !.heap = AppendChild(c.w.heap, dom, elem)]]

\* lines 323-326, p being how lines 289-321 ended
pageChildren(a, dom, elem, skel, p) ==
  IF p.kind # "ok" THEN p
  ELSE pageAppend(dom, elem, connectPageChildren(p.w, a, elem, skel, 1))

\* lines 285-326, w holding the element with its attributes set
pageElement(w, a, dom, elem, skel, componentName, componentKey) ==
  pageChildren(a, dom, elem, skel,
               IF Truthy(componentName) \/ Truthy(componentKey)
               THEN connectPlaceholder(w, a, elem, JsString(componentName), componentKey)
               ELSE [kind |-> "ok", w |-> w])

\* lines 280-287, h1 being the heap with the new element and its attributes
pageCreated(w, a, dom, elem, skel, h1) ==
  pageElement([w EXCEPT !.heap = h1], a, dom, elem, skel,
              GetAttribute(h1[elem], sLucidComponent), GetAttribute(h1[elem], sLucidKey))

connectPage(w, a, dom, skel) ==
  IF skel.kind = "string"
  THEN [kind |-> "ok",
        w |-> [w EXCEPT !.heap = AppendChild(Append(w.heap, NewText(skel.text)), dom,
                                             Len(w.heap) + 1)]]
  ELSE IF skel.kind # "node" THEN [kind |-> "throw", w |-> w]
  ELSE pageCreated(w, a, dom, Len(w.heap) + 1, skel,
                   pageAttrs(Append(w.heap, NewElement(skel.tag)), Len(w.heap) + 1,
                             skel.attrs, 1))

(***************************************************************************)
(* setState of a bound context (lines 387-398).                            *)
(***************************************************************************)
\* line 397, u being what updateComponent got; the hook is called with `this` itself
setStateUpdated(w, a, this, u) ==
  IF u.kind # "ok" THEN [kind |-> u.kind, w |-> [w EXCEPT !.heap = u.heap]]
  ELSE IF "updated" \notin DefOf(a, this.name).hooks
  THEN [kind |-> "ok", w |-> [w EXCEPT !.heap = u.heap]]
  ELSE HookBody([w EXCEPT !.heap = u.heap], a, "updated", this)

\* lines 392-394, w holding the new state; a null first child has neither
\* setAttribute nor childNodes
setStateUpdate(w, a, this, dom) ==
  IF dom = 0 THEN [kind |-> "throw", w |-> w]
  ELSE setStateUpdated(w, a, this,
                       updateComponent(w.heap, dom, w.skeleton[this.name], this.name,
                                       this.key, Comps(a), w.elements))

\* line 389, entry being Lucid.app.page.elements[elementKey]
setStateStore(w, a, this, elementKey, entry, newState) ==
  IF entry = Undefined THEN [kind |-> "throw", w |-> w]
  ELSE setStateUpdate([w EXCEPT !.elements[elementKey] =
                                  EntryOf(newState, EntryDom(entry))],
                      a, this, FirstChild(w.heap, EntryDom(entry)))

setState(w, a, this, newState) ==
  setStateStore(w, a, this, ElementKey(this.name, this.key),
                At(w.elements, ElementKey(this.name, this.key)), newState)

(***************************************************************************)
(* disconnectComponent (lines 228-239).                                    *)
(***************************************************************************)
\* line 238, d being how the hook of line 236 ended
disconnectClear(elementKey, d) ==
  IF d.kind # "ok" THEN d
  ELSE [kind |-> "ok", w |-> [d.w EXCEPT !.elements[elementKey] = Undefined]]

\* disconnectRemove with the hook of line 236 fired before the removal of line 233
disconnectRemoveHookFirst(w, a, componentName, componentKey, elementKey, dom) ==
  IF w.heap[dom].parentNode = 0 THEN [kind |-> "throw", w |-> w]
  ELSE LET d == FireHook(w, a, componentName, componentKey, "disconnected")
       IN  disconnectClear(elementKey,
                           [kind |-> d.kind,
                            w |-> [d.w EXCEPT !.heap = RemoveChild(d.w.heap,
                                                                   d.w.heap[dom].parentNode,
                                                                   dom)]])

\* lines 233-238, dom being the host root of the entry; null has no removeChild
disconnectRemove(w, a, componentName, componentKey, elementKey, dom) ==
  IF w.heap[dom].parentNode = 0 THEN [kind |-> "throw", w |-> w]
  ELSE disconnectClear(elementKey,
                       FireHook([w EXCEPT !.heap = RemoveChild(w.heap,
                                                               w.heap[dom].parentNode, dom)],
                                a, componentName, componentKey, "disconnected"))

\* line 230, entry being Lucid.app.page.elements[elementKey]
disconnectEntry(w, a, componentName, componentKey, elementKey, entry) ==
  IF entry = Undefined THEN [kind |-> "throw", w |-> w]
  ELSE disconnectRemove(w, a, componentName, componentKey, elementKey, EntryDom(entry))

disconnectComponent(w, a, componentName, componentKey) ==
  disconnectEntry(w, a, componentName, componentKey,
                  ElementKey(componentName, componentKey),
                  At(w.elements, ElementKey(componentName, componentKey)))

(***************************************************************************)
(* What a call leaves behind.                                              *)
(***************************************************************************)
\* the identities, kinds and tags of a host subtree
RECURSIVE Shape(_, _)
Shape(h, id) ==
  [id |-> id, nodeType |-> h[id].nodeType, tagName |-> h[id].tagName,
   children |-> [i \in 1..Len(h[id].childNodes) |-> Shape(h, h[id].childNodes[i])]]

\* the element keys whose entry a call wrote with a new host root
Remounted(old, new) ==
  {k \in DOMAIN new : new[k] # Undefined
                      /\ (k \notin DOMAIN old \/ old[k] = Undefined
                          \/ EntryDom(old[k]) # EntryDom(new[k]))}

\* the record of the mounts: a key mounted by this call gets a fresh record
\* when its subtree was mounted, and loses its record when the mount failed;
\* the host root of an instance carries the name of its component (lines 169, 286)
MountsAfter(w) ==
  LET re == Remounted(elements, w.elements)
      done == {k \in re : FirstChild(w.heap, EntryDom(w.elements[k])) # 0}
  IN  [k \in (DOMAIN mounts \ re) \cup done |->
         IF k \in done
         THEN [name |-> GetAttribute(w.heap[EntryDom(w.elements[k])], sLucidComponent).v,
               wrapper |-> EntryDom(w.elements[k]),
               root |-> FirstChild(w.heap, EntryDom(w.elements[k])),
               shape |-> Shape(w.heap, FirstChild(w.heap, EntryDom(w.elements[k])))]
         ELSE mounts[k]]

\* the program state after a call that ended as r did
Finish(r, call) ==
  /\ heap' = r.w.heap
  /\ elements' = r.w.elements
  /\ skeleton' = r.w.skeleton
  /\ hookLog' = r.w.hookLog
  /\ contexts' = r.w.contexts
  /\ renders' = r.w.renders
  /\ lastCall' = [op |-> call.op, name |-> call.name, key |-> call.key,
                  arg |-> call.arg, nested |-> call.nested, this |-> call.this,
                  kind |-> r.kind,
                  logStart |-> Len(hookLog), before |-> heap, registry |-> elements]
  /\ calls' = calls + 1
  /\ mounts' = MountsAfter(r.w)
  /\ mutated' = mutated \ Remounted(elements, r.w.elements)
  /\ UNCHANGED <<app, interpVars>>

Call(op, name, key, arg, this) ==
  [op |-> op, name |-> name, key |-> key, arg |-> arg, nested |-> <<>>, this |-> this]
NoThis == [name |-> <<>>, key |-> Undefined, dom |-> 0, state |-> Undefined]
NoCall == [op |-> "none", name |-> <<>>, key |-> Undefined, arg |-> Undefined,
           nested |-> <<>>,
           this |-> NoThis, kind |-> "ok", logStart |-> 0, before |-> <<>>,
           registry |-> <<>>]

\* a call that never returns leaves the program hung
Running == calls < MaxCalls /\ lastCall.kind # "hang" /\ ipc = "idle"

(***************************************************************************)
(* The entry points.                                                       *)
(***************************************************************************)
\* Lucid.renderComponent(container, componentName, componentKey)
Render(componentName, componentKey) ==
  /\ Running
  /\ Finish(renderComponent(World, app, Container, componentName, componentKey),
            Call("render", componentName, componentKey, Undefined, NoThis))
  /\ UNCHANGED pageSkeleton

\* lines 131-136, built being what createSkeleton got: the page keeps its skeleton
\* however connectPage ends
runConnected(r, skel) == [kind |-> r.kind, w |-> r.w, page |-> skel]
runConnect(w, a, built) ==
  IF built.kind # "ok" THEN [kind |-> built.kind, w |-> w, page |-> SkNull]
  ELSE runConnected(connectPage(w, a, Container, built.skel), built.skel)

\* lines 125-141, i being the index of the first element node
runPage(w, a, i) ==
  IF i = 0 THEN [kind |-> "ok", w |-> w, page |-> SkNull]
  ELSE runConnect(w, a, createSkeleton(a.contents[i], Undefined, Comps(a),
                                       w.elements, w.heap))

\* what Run leaves behind, r being how run ended
RunFinish(r) ==
  /\ Finish(r, Call("run", <<>>, Undefined, Undefined, NoThis))
  /\ pageSkeleton' = IF r.page = SkNull THEN pageSkeleton ELSE r.page

\* Lucid.app.run(containerId), lines 121-142; the page of the model has no hooks
Run ==
  /\ Running
  /\ RunFinish(runPage(World, app, FirstElementIndex(app.contents)))

\* this.setState(newState) on a bound context that a hook retained, q being the
\* states the updated hook will set in its turn
SetState(this, newState, q) ==
  /\ Running
  /\ this \in contexts
  /\ Finish(setState([World EXCEPT !.pending = q], app, this, newState),
            [Call("setState", this.name, this.key, newState, this) EXCEPT !.nested = q])
  /\ UNCHANGED pageSkeleton

\* Lucid.removeComponent(componentName, componentKey)
Disconnect(componentName, componentKey) ==
  /\ Running
  /\ Finish(disconnectComponent(World, app, componentName, componentKey),
            Call("disconnect", componentName, componentKey, Undefined, NoThis))
  /\ UNCHANGED pageSkeleton

(***************************************************************************)
(* The environment: code outside Lucid changes the children of the         *)
(* rendered root of an instance, removing its last child or appending a    *)
(* text node to it.                                                        *)
(***************************************************************************)
HostMutate(k, remove) ==
  /\ Running
  /\ k \in DOMAIN elements
  /\ elements[k] # Undefined
  /\ LET root == FirstChild(heap, EntryDom(elements[k]))
     IN  /\ root # 0
         /\ IF remove
            THEN /\ heap[root].childNodes # <<>>
                 /\ heap' = RemoveChild(heap, root,
                                        heap[root].childNodes[Len(heap[root].childNodes)])
            ELSE heap' = AppendChild(Append(heap, NewText(<<"x">>)), root, Len(heap) + 1)
  /\ mutated' = mutated \cup {k}
  /\ lastCall' = [NoCall EXCEPT !.op = "mutate", !.logStart = Len(hookLog),
                                !.before = heap, !.registry = elements]
  /\ calls' = calls + 1
  /\ UNCHANGED <<app, elements, skeleton, pageSkeleton, hookLog, contexts, mounts,
                 renders, interpVars>>

Names == {d.name : d \in Definitions}

Init ==
  /\ app \in Apps
  /\ heap = <<NewElement(tDIV)>>
  /\ elements = [k \in {} |-> Undefined]
  /\ skeleton = [n \in Names |-> SkNull]
  /\ pageSkeleton = SkNull
  /\ hookLog = <<>>
  /\ contexts = {}
  /\ lastCall = NoCall
  /\ calls = 0
  /\ mounts = [k \in {} |-> Undefined]
  /\ mutated = {}
  /\ renders = [n \in Names |-> 0]
  /\ itext = <<>>
  /\ ientry = Undefined
  /\ iinput = <<>>
  /\ ipc = "idle"
  /\ ikey = Undefined
  /\ iresult = Undefined

Next ==
  \/ \E n \in CallNames(app), k \in Keys : Render(n, k)
  \/ Run
  \/ \E this \in contexts, s \in States, q \in Nested : SetState(this, s, q)
  \/ \E n \in CallNames(app), k \in Keys : Disconnect(n, k)
  \/ \E k \in DOMAIN elements, remove \in BOOLEAN : HostMutate(k, remove)

Spec == Init /\ [][Next]_vars

(***************************************************************************)
(* convertTextVariables, its entry (lines 412-428) and then one turn of    *)
(* its while loop at a time (lines 430-449): the inputs are every text     *)
(* over a small alphabet and the texts of the components, the keys are     *)
(* none, the empty string and "1", the registry entries are what a mount   *)
(* writes, and the component is the one with a method.                     *)
(***************************************************************************)
Alphabet == {"{", "}", ".", "a"}
ShortTexts == UNION {[1..n -> Alphabet] : n \in 0..MaxLen}
SampleTexts ==
  {Placeholder(sCount), Placeholder(sState \o DOT \o sCount),
   Placeholder(sA \o DOT \o sB), Placeholder(sState \o DOT \o sA \o DOT \o sB),
   <<"n", "=">> \o Placeholder(sState \o DOT \o sCount) \o <<"/">>
     \o Placeholder(sState \o DOT \o sCount),
   <<"n", "=">> \o LB \o sState \o DOT \o sCount,
   sCount, sIncrement, Placeholder(sMethods \o DOT \o sIncrement),
   <<"x">> \o Placeholder(sMethods \o DOT \o sIncrement) \o <<"y">>}
Texts == ShortTexts \cup SampleTexts
Entries == {EntryOf(st, Container) : st \in States \cup {Undefined}}
CallKeys == {Undefined, Str(<<>>), Str(<<"1">>)}

InitInterp ==
  /\ app = [components |-> {Button}, contents |-> PageFor(Button.name)]
  /\ heap = <<NewElement(tDIV)>>
  /\ elements = [k \in {} |-> Undefined]
  /\ skeleton = [n \in Names |-> SkNull]
  /\ pageSkeleton = SkNull
  /\ hookLog = <<>>
  /\ contexts = {}
  /\ lastCall = NoCall
  /\ calls = 0
  /\ mounts = [k \in {} |-> Undefined]
  /\ mutated = {}
  /\ renders = [n \in Names |-> 0]
  /\ iinput \in Texts
  /\ itext = iinput
  /\ ientry \in Entries
  /\ ikey \in CallKeys
  /\ iresult = Undefined
  /\ ipc = "call"

\* lines 416-428, d being what the definition-time branch came to
ICallDefinition(d) ==
  /\ ipc' = IF d.kind = "return" THEN "returned" ELSE "threw"
  /\ iresult' = d.val

\* the entry of the function, lines 412-431: the key is converted, and without
\* a key the definition-time branch returns
ICall ==
  /\ ipc = "call"
  /\ IF ikey.t \in {"undefined", "null"} THEN ipc' = "threw" /\ iresult' = iresult
     ELSE IF JsString(ikey) = <<>>
     THEN ICallDefinition(DefinitionTime(iinput, Button.name, Comps(app), heap))
     ELSE ipc' = "test" /\ iresult' = iresult
  /\ UNCHANGED <<itext, ientry, iinput, ikey, lifecycleVars>>

\* the while condition, lines 433-434
ITest ==
  /\ ipc = "test"
  /\ ipc' = IF WhileStep(itext, ientry, heap).kind = "return" THEN "returned" ELSE "body"
  /\ UNCHANGED <<itext, ientry, iinput, ikey, iresult, lifecycleVars>>

\* what the body leaves, s being what one turn came to
IBodyDone(s) ==
  /\ ipc' = IF s.kind = "throw" THEN "threw" ELSE "test"
  /\ itext' = s.text

\* the loop body, lines 436-446
IBody ==
  /\ ipc = "body"
  /\ IBodyDone(WhileStep(itext, ientry, heap))
  /\ UNCHANGED <<ientry, iinput, ikey, iresult, lifecycleVars>>

NextInterp == ICall \/ ITest \/ IBody

\* the function moves on: at its entry, at the condition and in the body the
\* engine always has a next step (ICall, ITest and IBody are total there), and
\* every step changes ipc
Turn ==
  /\ ipc \in {"call", "test", "body"}
  /\ ipc' \in {"test", "body", "returned", "threw"} \ {ipc}

\* a loop that can take a turn takes it
InterpSpec == InitInterp /\ [][NextInterp]_vars /\ WF_ipc(Turn)

(***************************************************************************)
(* The properties.                                                         *)
(***************************************************************************)
\* the element key of the instance the last call was about
KeyOfCall == ElementKey(lastCall.name, lastCall.key)

\* the instance under k was mounted to the end and its host subtree not touched since
Tracked(k) == k \in DOMAIN mounts /\ k \notin mutated

\* the value of the first child of the rendered root of the instance under k
RootText(h, k) == h[h[mounts[k].root].childNodes[1]].nodeValue

\* a host subtree by value: tags, attributes, text values and child order
RECURSIVE ValueTree(_, _)
ValueTree(h, id) ==
  [nodeType |-> h[id].nodeType, tagName |-> h[id].tagName, attrs |-> h[id].attrs,
   nodeValue |-> h[id].nodeValue,
   children |-> [i \in 1..Len(h[id].childNodes) |-> ValueTree(h, h[id].childNodes[i])]]

\* a mount of the cached skeleton of a component whose state is st, into a new wrapper
FreshMount(name, key, st) ==
  connectComponent(<<NewElement(tDIV), NewElement(tDIV)>>, 2, skeleton[name], name, key,
                   [Comps(app) EXCEPT ![name] =
                      ComponentObject([DefOf(app, name) EXCEPT !.state = st])],
                   ElementKey(name, key) :> EntryOf(st, 2))

\* a host shape and a skeleton agree index for index
RECURSIVE ShapeMatches(_, _)
ShapeMatches(shape, skel) ==
  IF skel.kind = "string" THEN shape.nodeType = "text" /\ shape.children = <<>>
  ELSE /\ skel.kind = "node"
       /\ shape.nodeType = "element"
       /\ shape.tagName = skel.tag
       /\ Len(shape.children) = Len(skel.children)
       /\ \A i \in 1..Len(skel.children) : ShapeMatches(shape.children[i], skel.children[i])

\* the hooks that fired for an instance during the last call, in order
RECURSIVE HookNames(_, _, _)
HookNames(log, name, key) ==
  IF log = <<>> THEN <<>>
  ELSE (IF Head(log).this.name = name /\ Head(log).this.key = key
        THEN <<Head(log).hook>> ELSE <<>>) \o HookNames(Tail(log), name, key)
NewLog == SubSeq(hookLog, lastCall.logStart + 1, Len(hookLog))

\* the component placeholders of a page skeleton, as connectPage reads them
RECURSIVE PlaceholdersOf(_)
SkAttr(skel, name) ==
  LET at == {i \in 1..Len(skel.attrs) : skel.attrs[i].name = name}
  IN  IF at = {} THEN Null ELSE skel.attrs[CHOOSE i \in at : TRUE].value
PlaceholdersOf(skel) ==
  IF skel.kind # "node" THEN {}
  ELSE (IF Truthy(SkAttr(skel, sLucidComponent)) \/ Truthy(SkAttr(skel, sLucidKey))
        THEN {[name |-> JsString(SkAttr(skel, sLucidComponent)),
               key |-> SkAttr(skel, sLucidKey)]}
        ELSE {})
       \cup UNION {PlaceholdersOf(skel.children[i]) : i \in 1..Len(skel.children)}

C2_MountUpdateEquivalence ==
  (lastCall.op = "setState" /\ lastCall.kind = "ok" /\ Tracked(KeyOfCall)
   /\ FreshMount(lastCall.name, lastCall.key, lastCall.arg).kind = "ok")
  => ValueTree(heap, mounts[KeyOfCall].root)
     = ValueTree(FreshMount(lastCall.name, lastCall.key, lastCall.arg).heap,
                 FirstChild(FreshMount(lastCall.name, lastCall.key, lastCall.arg).heap, 2))

\* C3: as long as nothing outside changed its structure, the host subtree of a
\* mounted instance has the nodes, the child order and the tags the mount gave it,
\* index for index those of the cached skeleton; setState creates no node.
C3_PositionalInvariant ==
  /\ \A k \in DOMAIN mounts :
       k \notin mutated =>
         /\ Shape(heap, mounts[k].root) = mounts[k].shape
         /\ ShapeMatches(mounts[k].shape, skeleton[mounts[k].name])
  /\ lastCall.op = "setState" => Len(heap) = Len(lastCall.before)

\* a setState on a card has returned and has changed what the host nodes hold
C3_Witness ==
  /\ lastCall.op = "setState" /\ lastCall.kind = "ok" /\ lastCall.name = Card.name
  /\ Tracked(KeyOfCall)
  /\ lastCall.arg = SB
  /\ heap # lastCall.before
  /\ Len(mounts[KeyOfCall].shape.children) = 3

\* C4: a mount that returns (renderComponent, or a placeholder met by run) of a
\* component with a created and a connected hook has fired created once, then
\* connected once.
C4_MountHookOrder ==
  /\ (lastCall.op = "render" /\ lastCall.kind = "ok"
      /\ {"created", "connected"} \subseteq DefOf(app, lastCall.name).hooks)
     => HookNames(NewLog, lastCall.name, lastCall.key) = <<"created", "connected">>
  /\ (lastCall.op = "run" /\ lastCall.kind = "ok")
     => \A p \in PlaceholdersOf(pageSkeleton) :
          {"created", "connected"} \subseteq DefOf(app, p.name).hooks
          => HookNames(NewLog, p.name, p.key) = <<"created", "connected">>

\* run has mounted a placeholder after renderComponent had mounted an instance
C4_Witness ==
  /\ lastCall.op = "run" /\ lastCall.kind = "ok"
  /\ PlaceholdersOf(pageSkeleton) # {}
  /\ Len(NewLog) = 2
  /\ \E i \in 1..lastCall.logStart : hookLog[i].hook = "connected"

\* C5: a mount of the component whose markup has onclick="increment" succeeds and
\* leaves exactly one click subscription, bound to the method, on the mounted
\* element; setState leaves that one subscription.
C5_EventBinding ==
  /\ (lastCall.op = "render" /\ lastCall.name = Button.name)
     => /\ lastCall.kind = "ok"
        /\ heap[FirstChild(heap, EntryDom(elements[KeyOfCall]))].listeners
           = <<[type |-> <<"c", "l", "i", "c", "k">>,
                handler |-> [handler |-> Fn(sIncrement), name |-> lastCall.name,
                             key |-> lastCall.key]]>>
  /\ \A k \in DOMAIN mounts :
       (k \notin mutated /\ mounts[k].name = Button.name)
       => Len(heap[mounts[k].root].listeners) = 1

\* C6: the context an updated hook receives holds, as its state, the state
\* setState has just stored in the registry.
C6_UpdatedSeesNewState ==
  \A i \in 1..Len(hookLog) :
    hookLog[i].hook = "updated" => hookLog[i].this.state = EntryState(hookLog[i].entry)

\* C7: when connected fires, the subtree of the instance is mounted and the host
\* root of the instance is a child of its host parent.
C7_ConnectedAfterInsertion ==
  \A i \in 1..Len(hookLog) :
    hookLog[i].hook = "connected" => hookLog[i].mounted /\ hookLog[i].attached

\* the call has an instance key: the while loop of lines 432-449 resolves the text
RenderTime == ikey.t = "string" /\ ikey.v # <<>>

\* text has an opening marker with no closing marker after it
Unterminated(text) ==
  \E i \in 0..(Len(text) - 2) :
    SubSeq(text, i + 1, i + 2) = LB /\ IndexOf(text, RB, i + 2) = -1

\* C8: render-time interpolation of a text with an unterminated placeholder
\* comes to an end, by returning or by failing.
C8_InterpolationTerminates ==
  (Unterminated(iinput) /\ RenderTime) => <>(ipc \in {"returned", "threw"})

\* obj has the property key
HasProperty(obj, key) ==
  CASE obj.t = "object" -> key \in DOMAIN obj.f
    [] obj.t = "string" -> key = sLength
    [] obj.t = "node" -> key \in {sChildElementCount, sTagName}
    [] OTHER -> FALSE

\* some segment of the path is missing: what the segments before it come to
\* does not have it
PathMissing(props, obj, h) ==
  \E n \in 1..Len(props) :
    \/ Lookup(obj, SubSeq(props, 1, n - 1), h).threw
    \/ ~HasProperty(Lookup(obj, SubSeq(props, 1, n - 1), h).val, props[n])

\* the path of the first placeholder of a text, <<>> if it has none
FirstPath(text) ==
  IF IndexOf(text, LB, 0) = -1 \/ IndexOf(text, RB, IndexOf(text, LB, 0) + 2) = -1
  THEN <<>>
  ELSE Split(Substring(text, IndexOf(text, LB, 0) + 2,
                       IndexOf(text, RB, IndexOf(text, LB, 0) + 2)))

\* C9: render-time interpolation of a text whose first placeholder has a path
\* with a missing segment does not return; it fails.
C9_LookupFailure ==
  (ipc = "returned" /\ RenderTime /\ FirstPath(iinput) # <<>>)
  => ~PathMissing(FirstPath(iinput), ientry, heap)

\* C10: a setState that finds the rendered root of the instance with a child
\* count other than that of the skeleton fails.
C10_StructuralMismatchDetected ==
  (/\ lastCall.op = "setState"
   /\ At(elements, KeyOfCall) # Undefined
   /\ FirstChild(lastCall.before, EntryDom(At(elements, KeyOfCall))) # 0
   /\ skeleton[lastCall.name].kind = "node"
   /\ Len(lastCall.before[FirstChild(lastCall.before,
                                     EntryDom(At(elements, KeyOfCall)))].childNodes)
      # Len(skeleton[lastCall.name].children))
  => lastCall.kind = "throw"

\* C11: after run has mounted the page, every component placeholder of the page
\* holds one instance of its component: the rendered root of that instance is the
\* only child of the placeholder element, and the placeholder's own page children
\* are not mounted.
C11_PlaceholderChildren ==
  (lastCall.op = "run" /\ lastCall.kind = "ok")
  => \A p \in PlaceholdersOf(pageSkeleton) :
       /\ At(elements, ElementKey(p.name, p.key)) # Undefined
       /\ EntryDom(elements[ElementKey(p.name, p.key)]) > Len(lastCall.before)
       /\ Len(heap[EntryDom(elements[ElementKey(p.name, p.key)])].childNodes) = 1
       /\ heap[FirstChild(heap, EntryDom(elements[ElementKey(p.name, p.key)]))].tagName
          = skeleton[p.name].tag

\* what the path of the first placeholder of the input comes to in the definition
\* of the component
DefinitionValue == Lookup(At(Comps(app), Button.name), FirstPath(iinput), heap)

\* C12: a call with no instance key, for a text whose first placeholder names a
\* function of the component definition, returns that function and does not fail.
C12_DefinitionTime ==
  (/\ ipc # "call"
   /\ ~RenderTime
   /\ FirstPath(iinput) # <<>>
   /\ ~DefinitionValue.threw
   /\ DefinitionValue.val.t = "function")
  => ipc = "returned" /\ iresult = DefinitionValue.val

BuiltSkeleton(d) ==
  createSkeleton(d.render[FirstElementIndex(d.render)], Str(d.name), Comps(app),
                 elements, heap)

\* C15: whatever was mounted, updated and disconnected, the render function of a
\* component was called at most once, and a cached skeleton is the one the build
\* on the first mount gave.
C15_SkeletonCaching ==
  \A d \in app.components :
    /\ renders[d.name] <= 1
    /\ skeleton[d.name] # SkNull
       => renders[d.name] = 1 /\ skeleton[d.name] = BuiltSkeleton(d).skel

\* the host root dom carries another (componentName, instanceKey) pair than the
\* one the last call was made for
OtherInstance(h, dom) ==
  <<GetAttribute(h[dom], sLucidComponent), GetAttribute(h[dom], sLucidKey)>>
    # <<Str(lastCall.name), Str(JsString(lastCall.key))>>

\* the last call was a mount of a registered component, a setState, or a
\* disconnect of an instance whose host root was attached
OnInstance ==
  /\ lastCall.op \in {"render", "setState", "disconnect"}
  /\ Registered(app, lastCall.name)
  /\ lastCall.op = "disconnect"
     => \E dom \in 1..Len(lastCall.before) :
          /\ ~OtherInstance(lastCall.before, dom)
          /\ lastCall.before[dom].parentNode # 0

\* C17: a mount, a setState or a disconnect for one (componentName, instanceKey)
\* pair leaves the registry entry of every instance of another pair as it was
\* (its state and its host root), and its host subtree node for node.
C17_InstanceIsolation ==
  OnInstance
  => \A k \in DOMAIN lastCall.registry :
       (/\ lastCall.registry[k] # Undefined
        /\ OtherInstance(lastCall.before, EntryDom(lastCall.registry[k])))
       => /\ At(elements, k) = lastCall.registry[k]
          /\ ValueTree(heap, EntryDom(lastCall.registry[k]))
             = ValueTree(lastCall.before, EntryDom(lastCall.registry[k]))
          /\ Shape(heap, EntryDom(lastCall.registry[k]))
             = Shape(lastCall.before, EntryDom(lastCall.registry[k]))
          /\ heap[EntryDom(lastCall.registry[k])].parentNode
             = lastCall.before[EntryDom(lastCall.registry[k])].parentNode

\* the registry held no entry of the instance the last call was made for
InstanceAbsent ==
  \/ At(lastCall.registry, KeyOfCall) = Undefined
  \/ OtherInstance(lastCall.before, EntryDom(lastCall.registry[KeyOfCall]))

\* the last call left the instance registry and the tree under the container as
\* they were
NothingChanged ==
  /\ elements = lastCall.registry
  /\ Shape(heap, Container) = Shape(lastCall.before, Container)
  /\ ValueTree(heap, Container) = ValueTree(lastCall.before, Container)

\* C18: a mount of a component name that is not registered, and a setState or a
\* disconnect for an instance the registry does not hold, fail and leave the
\* instance registry and the attached host tree unchanged.
C18_RegistryMiss ==
  (\/ lastCall.op = "render" /\ ~Registered(app, lastCall.name)
   \/ lastCall.op \in {"setState", "disconnect"} /\ InstanceAbsent)
  => lastCall.kind = "throw" /\ NothingChanged

\* the host root the registry held for the instance of the last call
DomOfCall == EntryDom(lastCall.registry[KeyOfCall])

\* the last call was a disconnect of an instance the registry held, its host root
\* a child of a host parent
DisconnectOfMounted ==
  /\ lastCall.op = "disconnect"
  /\ Registered(app, lastCall.name)
  /\ ~InstanceAbsent
  /\ lastCall.before[DomOfCall].parentNode # 0

\* C13: a disconnect of a registered, mounted instance returns; its disconnected
\* hook, if the component has one, fired once, after the host root was removed
\* from its host parent and while the registry still held the entry of the
\* instance; after the call the host root is no child of its former parent and
\* the registry holds no entry for the instance.
C13_DisconnectOrder ==
  DisconnectOfMounted
  => /\ lastCall.kind = "ok"
     /\ "disconnected" \in DefOf(app, lastCall.name).hooks
        => /\ Len(NewLog) = 1
           /\ NewLog[1].hook = "disconnected"
           /\ NewLog[1].this.name = lastCall.name /\ NewLog[1].this.key = lastCall.key
           /\ NewLog[1].entry = lastCall.registry[KeyOfCall]
           /\ NewLog[1].this.state = EntryState(lastCall.registry[KeyOfCall])
           /\ ~NewLog[1].attached
     /\ heap[DomOfCall].parentNode = 0
     /\ \A i \in 1..Len(heap[lastCall.before[DomOfCall].parentNode].childNodes) :
          heap[lastCall.before[DomOfCall].parentNode].childNodes[i] # DomOfCall
     /\ At(elements, KeyOfCall) = Undefined

\* a disconnect of a mounted instance has returned and its hook has fired
C13_Witness ==
  /\ DisconnectOfMounted
  /\ lastCall.kind = "ok"
  /\ Len(NewLog) = 1
  /\ heap[DomOfCall].parentNode = 0
  /\ FirstChild(heap, DomOfCall) # 0

\* the registry entry a hook found is the one of its own instance: its host root
\* carries the name and the key of the instance, and its state is the one the
\* bound context holds
OwnEntry(rec) ==
  /\ rec.entry # Undefined
  /\ rec.this.state = EntryState(rec.entry)
  /\ GetAttribute(heap[EntryDom(rec.entry)], sLucidComponent) = Str(rec.this.name)
  /\ GetAttribute(heap[EntryDom(rec.entry)], sLucidKey) = Str(JsString(rec.this.key))

UpdatedFired == {i \in 1..Len(NewLog) : NewLog[i].hook = "updated"}

\* the last of the states the last call and its nested calls set
LastSet == lastCall.nested[Len(lastCall.nested)]

\* the last call was a setState whose updated hook called setState again, on an
\* instance mounted to the end, the last one mounted under its registry key
ReentrantSetState ==
  /\ lastCall.op = "setState" /\ lastCall.kind = "ok"
  /\ lastCall.nested # <<>>
  /\ Tracked(KeyOfCall)
  /\ mounts[KeyOfCall].name = lastCall.name

\* C19: after a setState whose updated hook called setState again has returned,
\* updated has fired once for each of the calls, the registry holds the state set
\* last, and the host subtree of the instance is equal by value (text nodes and
\* attributes) to a mount of the skeleton with that state.
C19_ReentrantSetState ==
  (ReentrantSetState /\ FreshMount(lastCall.name, lastCall.key, LastSet).kind = "ok")
  => /\ Cardinality(UpdatedFired) = 1 + Len(lastCall.nested)
     /\ Len(NewLog) = 1 + Len(lastCall.nested)
     /\ EntryState(elements[KeyOfCall]) = LastSet
     /\ ValueTree(heap, mounts[KeyOfCall].root)
        = ValueTree(FreshMount(lastCall.name, lastCall.key, LastSet).heap,
                    FirstChild(FreshMount(lastCall.name, lastCall.key, LastSet).heap, 2))

\* C20: a mount of the component whose created hook calls this.setState({count: 5})
\* returns; after it the registry holds the state {count: 5} for the instance and
\* the mounted span shows "5".
C20_SetStateFromCreated ==
  (lastCall.op = "render" /\ lastCall.name = Eager.name /\ Registered(app, Eager.name))
  => /\ lastCall.kind = "ok"
     /\ At(elements, KeyOfCall) # Undefined
     /\ EntryState(elements[KeyOfCall]) = Eager.createdSets
     /\ FirstChild(heap, EntryDom(elements[KeyOfCall])) # 0
     /\ heap[EntryDom(elements[KeyOfCall])].parentNode = Container
     /\ Tracked(KeyOfCall)
     /\ RootText(heap, KeyOfCall) = <<"5">>

====
